---- MODULE Spec2Model ----
(***************************************************************************)
(* rawToPoly (src/src/polynomials.cpp): the raw polynomial expansion of a  *)
(* vector x according to an exponent matrix poly_terms.                    *)
(*                                                                         *)
(* A call is a small state machine over the statements of the function:    *)
(*   "check"  line 12      the size test                                   *)
(*   "alloc"  lines 16-17  the output vector and the row copy              *)
(*   "outer"  lines 20, 23 the outer loop test and the row load            *)
(*   "inner"  lines 24-26  the inner loop test and its body                *)
(*   "done"   line 30      the return                                      *)
(*   "error"  line 13      Rcpp::stop                                      *)
(* The variables of a call are indexed by the call, so that the same       *)
(* actions describe one call (Spec) and interleaved calls (SpecConc).      *)
(*                                                                         *)
(* A double is the pair <<n, d>> of a fraction n/d in lowest terms with    *)
(* d > 0; <<1, 0>> is +Inf, <<-1, 0>> is -Inf and <<0, 0>> is NaN.  Every  *)
(* value the model computes from its inputs is an integer or a dyadic      *)
(* fraction of small magnitude, which a double holds exactly.  The sign of *)
(* zero is not represented.                                                *)
(***************************************************************************)
EXTENDS Integers, FiniteSets, Sequences, TLC

\* ------------------------------------------------------------------ bounds
MaxRows == 2

MaxVars == 2

MaxCells == 4

\* The values an element of x is drawn from.
XVals == {<<-1, 1>>, <<0, 1>>, <<1, 2>>, <<2, 1>>}

\* The values an entry of poly_terms is drawn from; -1 is out of contract.
ExpVals == {-1, 0, 1, 2}

\* The calls of the single-call specification and of the interleaved one.
OneCall == {1}

TwoCalls == {1, 2}

\* ----------------------------------------------------------------- doubles
One == <<1, 1>>

Abs(n) == IF n < 0 THEN -n ELSE n

Sign(n) == IF n < 0 THEN -1 ELSE IF n > 0 THEN 1 ELSE 0

RECURSIVE GCD(_, _)
GCD(a, b) == IF b = 0 THEN a ELSE GCD(b, a % b)

\* The canonical pair of the fraction n/d.
Norm(v) ==
    IF v[2] = 0
    THEN <<Sign(v[1]), 0>>
    ELSE LET g == GCD(Abs(v[1]), Abs(v[2]))
         IN  <<Sign(v[2]) * Sign(v[1]) * (Abs(v[1]) \div g), Abs(v[2]) \div g>>

\* a * b on doubles (line 26, the *= of ans[i+1]).
Mul(a, b) == Norm(<<a[1] * b[1], a[2] * b[2]>>)

\* pow(b, p) for a double b and an int p (line 26).  pow(b, 0) is 1 for
\* every b; a negative p inverts, and pow(0, p) is then +Inf.
PowIgnoresExponent(b, p) == b

Pow(b, p) ==
    IF p = 0 THEN One
    ELSE IF p > 0 THEN Norm(<<b[1] ^ p, b[2] ^ p>>)
    ELSE Norm(<<b[2] ^ (-p), b[1] ^ (-p)>>)

\* ------------------------------------------------------------------ inputs
Size(f) == Cardinality(DOMAIN f)

\* Rcpp::NumericVector of length n: elements 0 .. n-1.
Vectors == UNION {[0 .. (n - 1) -> XVals] : n \in 0 .. MaxVars}

\* Rcpp::IntegerMatrix: nrow, ncol and the entries; cell[r] is row r.
Matrices ==
    UNION {{[nrow |-> m, ncol |-> v, cell |-> e] :
               e \in [0 .. (m - 1) -> [0 .. (v - 1) -> ExpVals]]} :
           <<m, v>> \in {s \in (0 .. MaxRows) \X (0 .. MaxVars) :
                            s[1] * s[2] <= MaxCells}}

\* The scenarios the specification lists: [2,3] with a 4-by-2 matrix, [5]
\* with [[0]], [2,2,2] with [[3,0,0]], and a 3-element x with 2 columns.
ScenarioX == [q \in 0 .. 1 |-> IF q = 0 THEN <<2, 1>> ELSE <<3, 1>>]

ScenarioE ==
    [nrow |-> 4, ncol |-> 2,
     cell |-> [r \in 0 .. 3 |->
                 [q \in 0 .. 1 |->
                    IF r = 0 THEN (IF q = 0 THEN 1 ELSE 0)
                    ELSE IF r = 1 THEN (IF q = 0 THEN 0 ELSE 1)
                    ELSE IF r = 2 THEN 1
                    ELSE (IF q = 0 THEN 2 ELSE 0)]]]

Scenarios ==
    {<<ScenarioX, ScenarioE>>,
     <<[q \in 0 .. 0 |-> <<5, 1>>],
       [nrow |-> 1, ncol |-> 1, cell |-> [r \in 0 .. 0 |-> [q \in 0 .. 0 |-> 0]]]>>,
     <<[q \in 0 .. 2 |-> <<2, 1>>],
       [nrow |-> 1, ncol |-> 3,
        cell |-> [r \in 0 .. 0 |-> [q \in 0 .. 2 |-> IF q = 0 THEN 3 ELSE 0]]]>>,
     <<[q \in 0 .. 2 |-> <<q + 1, 1>>],
       [nrow |-> 1, ncol |-> 2, cell |-> [r \in 0 .. 0 |-> [q \in 0 .. 1 |-> 1]]]>>}

\* ------------------------------------------------------------------- state
VARIABLES
    x,            \* the argument x
    poly_terms,   \* the argument poly_terms
    pc,           \* pc[c]: the statement call c is at
    ans,          \* ans[c]: the output vector of call c, <<>> before line 16
    powers,       \* powers[c]: the row copy of call c
    i,            \* i[c]: the outer loop index
    j,            \* j[c]: the inner loop index
    pow_calls,    \* pow_calls[c]: the <<base, exponent>> pairs passed to pow
    n_inner       \* n_inner[c]: the inner loop bodies call c has executed

vars == <<x, poly_terms, pc, ans, powers, i, j, pow_calls, n_inner>>

Calls == DOMAIN pc

n_poly == poly_terms.nrow

n_variables == poly_terms.ncol

\* ---------------------------------------------------------------- the code
\* Line 12: the test that leads to Rcpp::stop.
SizeMismatchRows == Size(x) # n_poly

SizeMismatch == Size(x) # n_variables

\* Line 16: Rcpp::NumericVector ans(n_poly + 1, 1.0).
AnsInitShort(n) == [k \in 0 .. (n - 1) |-> One]

AnsInit(n) == [k \in 0 .. n |-> One]

\* Line 23: poly_terms.row(r), copied into powers.
Row(r) == poly_terms.cell[r]

\* Line 25: the guard of the multiplication.
RaisesPowerNonZero(p) == p # 0

RaisesPowerNonNegative(p) == p >= 0

RaisesPowerAboveOne(p) == p > 1

RaisesPower(p) == p > 0

\* Line 26: the slot of ans that row r is accumulated in.
SlotSameIndex(r) == r

Slot(r) == r + 1

\* Line 26: ans[i+1] *= pow(x[j], powers[j]), by call c.
AccumulateInPlace(c) ==
    LET f == Pow(x[j[c]], powers[c][j[c]])
    IN  /\ ans' = [ans EXCEPT ![c][Slot(i[c])] = Mul(@, f)]
        /\ x' = [x EXCEPT ![j[c]] = f]

AccumulateShared(c) ==
    LET f == Pow(x[j[c]], powers[c][j[c]])
    IN  /\ ans' = [d \in DOMAIN ans |->
                     IF Slot(i[c]) \in DOMAIN ans[d]
                     THEN [ans[d] EXCEPT ![Slot(i[c])] = Mul(@, f)]
                     ELSE ans[d]]
        /\ x' = x

AccumulateAssign(c) ==
    /\ ans' = [ans EXCEPT ![c][Slot(i[c])] = Pow(x[j[c]], powers[c][j[c]])]
    /\ x' = x

Accumulate(c) ==
    /\ ans' = [ans EXCEPT ![c][Slot(i[c])] = Mul(@, Pow(x[j[c]], powers[c][j[c]]))]
    /\ x' = x

\* ----------------------------------------------------------------- actions
InitCall(cs) ==
    /\ pc = [c \in cs |-> "check"]
    /\ ans = [c \in cs |-> <<>>]
    /\ powers = [c \in cs |-> <<>>]
    /\ i = [c \in cs |-> 0]
    /\ j = [c \in cs |-> 0]
    /\ pow_calls = [c \in cs |-> {}]
    /\ n_inner = [c \in cs |-> 0]

InitInputs ==
    \/ x \in Vectors /\ poly_terms \in Matrices
    \/ \E s \in Scenarios : x = s[1] /\ poly_terms = s[2]

Init == InitInputs /\ InitCall(OneCall)

InitConc == InitInputs /\ InitCall(TwoCalls)

\* Lines 12-13.
CheckSize(c) ==
    /\ pc[c] = "check"
    /\ pc' = [pc EXCEPT ![c] = IF SizeMismatch THEN "error" ELSE "alloc"]
    /\ UNCHANGED <<x, poly_terms, ans, powers, i, j, pow_calls, n_inner>>

\* Lines 16-17 and the initialisation of the outer loop (line 20).
Allocate(c) ==
    /\ pc[c] = "alloc"
    /\ ans' = [ans EXCEPT ![c] = AnsInit(n_poly)]
    /\ powers' = [powers EXCEPT ![c] = <<>>]
    /\ i' = [i EXCEPT ![c] = 0]
    /\ pc' = [pc EXCEPT ![c] = "outer"]
    /\ UNCHANGED <<x, poly_terms, j, pow_calls, n_inner>>

\* Line 20 (the test), line 23 and the initialisation of the inner loop
\* (line 24); line 30 when the test fails.
OuterLoop(c) ==
    /\ pc[c] = "outer"
    /\ IF i[c] < n_poly
       THEN /\ powers' = [powers EXCEPT ![c] = Row(i[c])]
            /\ j' = [j EXCEPT ![c] = 0]
            /\ pc' = [pc EXCEPT ![c] = "inner"]
       ELSE /\ pc' = [pc EXCEPT ![c] = "done"]
            /\ UNCHANGED <<powers, j>>
    /\ UNCHANGED <<x, poly_terms, ans, i, pow_calls, n_inner>>

\* Lines 24-26: one execution of the inner loop body, and j++.
InnerBody(c) ==
    /\ pc[c] = "inner"
    /\ j[c] < n_variables
    /\ IF RaisesPower(powers[c][j[c]])
       THEN /\ Accumulate(c)
            /\ pow_calls' = [pow_calls EXCEPT
                               ![c] = @ \cup {<<x[j[c]], powers[c][j[c]]>>}]
       ELSE UNCHANGED <<x, ans, pow_calls>>
    /\ j' = [j EXCEPT ![c] = @ + 1]
    /\ n_inner' = [n_inner EXCEPT ![c] = @ + 1]
    /\ UNCHANGED <<poly_terms, pc, powers, i>>

\* Line 24 (the test fails) and i++ of line 20.
InnerExit(c) ==
    /\ pc[c] = "inner"
    /\ j[c] >= n_variables
    /\ i' = [i EXCEPT ![c] = @ + 1]
    /\ pc' = [pc EXCEPT ![c] = "outer"]
    /\ UNCHANGED <<x, poly_terms, ans, powers, j, pow_calls, n_inner>>

Next ==
    \/ \E c \in Calls : CheckSize(c)
    \/ \E c \in Calls : Allocate(c)
    \/ \E c \in Calls : OuterLoop(c)
    \/ \E c \in Calls : InnerBody(c)
    \/ \E c \in Calls : InnerExit(c)

Spec == Init /\ [][Next]_vars

SpecConc == InitConc /\ [][Next]_vars

\* ------------------------------------------------- the function as a whole
\* Lines 24-27 for one row: the product accumulated over columns 0 .. n-1.
RECURSIVE Monomial(_, _, _)
Monomial(xv, row, n) ==
    IF n = 0 THEN One
    ELSE IF row[n - 1] > 0
         THEN Mul(Monomial(xv, row, n - 1), Pow(xv[n - 1], row[n - 1]))
         ELSE Monomial(xv, row, n - 1)

\* Lines 16-30: the vector a call on (xv, E) returns when sizes agree.
RawToPoly(xv, E) ==
    [k \in 0 .. E.nrow |->
        IF k = 0 THEN One ELSE Monomial(xv, E.cell[k - 1], E.ncol)]

\* ------------------------------------------------ vocabulary of the claims
NonNegative(E) ==
    \A r \in 0 .. (E.nrow - 1) : \A q \in 0 .. (E.ncol - 1) : E.cell[r][q] >= 0

Rows == 0 .. (poly_terms.nrow - 1)

Cols == 0 .. (poly_terms.ncol - 1)

Allocated(c) == DOMAIN ans[c] # {}

\* b to the power p >= 0 by repeated multiplication.
RECURSIVE RefPower(_, _)
RefPower(b, p) == IF p <= 0 THEN <<1, 1>> ELSE Mul(b, RefPower(b, p - 1))

\* The product over columns 0 .. n-1 of xv[q] to the power row[q].
RECURSIVE RefProduct(_, _, _)
RefProduct(xv, row, n) ==
    IF n = 0 THEN <<1, 1>>
    ELSE Mul(RefProduct(xv, row, n - 1), RefPower(xv[n - 1], row[n - 1]))

\* The variant that multiplies by pow(xv[q], row[q]) for every column q.
RECURSIVE AllFactors(_, _, _)
AllFactors(xv, row, n) ==
    IF n = 0 THEN <<1, 1>>
    ELSE Mul(AllFactors(xv, row, n - 1), Pow(xv[n - 1], row[n - 1]))

ScenarioAns ==
    [k \in 0 .. 4 |->
        <<IF k = 0 THEN 1 ELSE IF k = 1 THEN 2 ELSE IF k = 2 THEN 3
          ELSE IF k = 3 THEN 6 ELSE 4, 1>>]

\* ---------------------------------------------------------------------- C1
\* C1: for a matrix of non-negative exponents, element r+1 of the returned
\* vector is the product over the columns q of x[q] to the power E[r][q],
\* computed by repeated multiplication; x = [2, 3] with
\* E = [[1,0],[0,1],[1,1],[2,0]] returns [1, 2, 3, 6, 4].
C1_MonomialValues ==
    \A c \in Calls :
        pc[c] = "done" =>
            /\ NonNegative(poly_terms) =>
                   \A r \in Rows :
                       ans[c][r + 1] = RefProduct(x, poly_terms.cell[r], poly_terms.ncol)
            /\ (x = ScenarioX /\ poly_terms = ScenarioE) => ans[c] = ScenarioAns

C1_Witness ==
    \E c \in Calls : pc[c] = "done" /\ x = ScenarioX /\ poly_terms = ScenarioE

\* ---------------------------------------------------------------------- C2
\* C2: when the length of x differs from the number of columns, the call
\* goes from the size test to the error outcome only, with no output vector
\* allocated, no loop body run and no power computed; when the sizes agree
\* the error outcome is never reached.
C2_ShapeMismatch ==
    \A c \in Calls :
        /\ Size(x) # poly_terms.ncol =>
               /\ pc[c] \in {"check", "error"}
               /\ ~Allocated(c)
               /\ n_inner[c] = 0
               /\ pow_calls[c] = {}
        /\ Size(x) = poly_terms.ncol => pc[c] # "error"

C2_Witness ==
    \E c \in Calls : pc[c] = "error" /\ Size(x) # poly_terms.ncol /\ ~Allocated(c)

\* ---------------------------------------------------------------------- C3
\* C3: the returned vector has exactly m + 1 elements, m the number of
\* rows; with m = 0 it is the single element 1, with v = 0 it is m + 1 ones.
C3_ResultLength ==
    \A c \in Calls :
        pc[c] = "done" =>
            /\ DOMAIN ans[c] = 0 .. poly_terms.nrow
            /\ Size(ans[c]) = poly_terms.nrow + 1
            /\ (poly_terms.nrow = 0 \/ poly_terms.ncol = 0) =>
                   \A k \in DOMAIN ans[c] : ans[c][k] = <<1, 1>>

C3_Witness ==
    \E c \in Calls : pc[c] = "done" /\ poly_terms.nrow > 0 /\ poly_terms.ncol = 0

\* ---------------------------------------------------------------------- C4
\* C4: element 0 of the output vector is 1 from the allocation on, in every
\* state of the loops and in the returned vector.
C4_ConstantTerm ==
    \A c \in Calls : Allocated(c) => (0 \in DOMAIN ans[c] /\ ans[c][0] = <<1, 1>>)

C4_Witness ==
    \E c \in Calls :
        /\ pc[c] = "done"
        /\ \E k \in DOMAIN ans[c] : k >= 1 /\ ans[c][k] # <<1, 1>>

\* ---------------------------------------------------------------------- C5
\* C5 as stated: a row with a negative entry returns the product in which
\* the negative entries take part as pow(x[q], E[r][q]).
C5_NegativePropagated ==
    \A c \in Calls :
        pc[c] = "done" =>
            \A r \in Rows :
                (\E q \in Cols : poly_terms.cell[r][q] < 0) =>
                    ans[c][r + 1] = AllFactors(x, poly_terms.cell[r], poly_terms.ncol)

\* C5 as amended: a negative entry is skipped like a zero entry: pow is
\* invoked with positive exponents only, and the returned element r+1 is the
\* product over the columns whose entry is positive.
C5_NegativeSkipped ==
    \A c \in Calls :
        /\ \A call \in pow_calls[c] : call[2] > 0
        /\ pc[c] = "done" =>
               \A r \in Rows :
                   ans[c][r + 1] =
                       RefProduct(x,
                                  [q \in Cols |->
                                      IF poly_terms.cell[r][q] < 0
                                      THEN 0 ELSE poly_terms.cell[r][q]],
                                  poly_terms.ncol)

C5_Witness ==
    \E c \in Calls :
        /\ pc[c] = "done"
        /\ \E r \in Rows : \E q \in Cols :
               poly_terms.cell[r][q] < 0 /\ x[q] = <<2, 1>>

\* ---------------------------------------------------------------------- C6
\* C6: no step of a call, on the success path or on the error path,
\* changes x or poly_terms.
C6_InputsUnchanged == [][x' = x /\ poly_terms' = poly_terms]_vars

C6_Witness ==
    \E c \in Calls : pc[c] = "done" /\ pow_calls[c] # {} /\ n_inner[c] > 1

\* ---------------------------------------------------------------------- C7
\* C7: interleaved calls on the same x and poly_terms each return the vector
\* the call returns when run alone, and a step of one call leaves the output
\* of every other call as it was.
C7_Interleaving ==
    /\ [](\A c \in Calls :
              /\ pc[c] = "done" => ans[c] = RawToPoly(x, poly_terms)
              /\ pc[c] = "error" => Size(x) # poly_terms.ncol)
    /\ [][\A d \in Calls :
              (pc'[d] = pc[d] /\ i'[d] = i[d] /\ j'[d] = j[d]) => ans'[d] = ans[d]]_vars

C7_Witness ==
    /\ Calls = TwoCalls
    /\ \A c \in Calls : pc[c] = "inner" /\ pow_calls[c] # {} /\ j[c] < poly_terms.ncol
    /\ i[1] # i[2]

\* ---------------------------------------------------------------------- C8
\* C8: pow is never invoked with exponent 0; an inner step at a zero entry
\* changes neither the output nor the record of pow invocations; and an
\* all-zero row leaves its element equal to 1.
C8_NoZeroPower ==
    /\ [](\A c \in Calls :
              /\ \A call \in pow_calls[c] : call[2] # 0
              /\ pc[c] = "done" =>
                     \A r \in Rows :
                         (\A q \in Cols : poly_terms.cell[r][q] = 0) =>
                             ans[c][r + 1] = <<1, 1>>)
    /\ [][\A c \in Calls :
              (/\ pc[c] = "inner"
               /\ j[c] < poly_terms.ncol
               /\ j'[c] = j[c] + 1
               /\ poly_terms.cell[i[c]][j[c]] = 0)
              => (ans'[c] = ans[c] /\ pow_calls'[c] = pow_calls[c])]_vars

C8_Witness ==
    \E c \in Calls :
        /\ pc[c] = "done"
        /\ pow_calls[c] # {}
        /\ \E r \in Rows : \E q \in Cols :
               poly_terms.cell[r][q] = 0 /\ x[q] = <<0, 1>>

\* ---------------------------------------------------------------------- C9
\* C9: for non-negative exponents the output equals, after every completed
\* row and at return, the output of the variant that multiplies by
\* pow(x[q], E[r][q]) for every entry, pow(b, 0) being 1 for every b.
VariantAfter(n) ==
    [k \in 0 .. poly_terms.nrow |->
        IF 1 <= k /\ k <= n
        THEN AllFactors(x, poly_terms.cell[k - 1], poly_terms.ncol)
        ELSE <<1, 1>>]

C9_SkipEquivalence ==
    NonNegative(poly_terms) =>
        \A c \in Calls : pc[c] \in {"outer", "done"} => ans[c] = VariantAfter(i[c])

C9_Witness ==
    \E c \in Calls :
        /\ pc[c] = "done"
        /\ NonNegative(poly_terms)
        /\ \E r \in Rows : \E q, t \in Cols :
               /\ poly_terms.cell[r][q] = 0 /\ x[q] = <<0, 1>>
               /\ poly_terms.cell[r][t] > 0 /\ x[t] # <<1, 1>>

\* --------------------------------------------------------------------- C10
\* C10: an inner step writes at most slot i+1; when the outer loop is at row
\* i, every slot above i is 1 and every slot 1 .. i holds the value that is
\* returned; the call returns after exactly m * v inner steps.
C10_LoopInvariant ==
    /\ [](\A c \in Calls :
              /\ pc[c] = "outer" =>
                     /\ i[c] <= poly_terms.nrow
                     /\ \A k \in DOMAIN ans[c] :
                            /\ k > i[c] => ans[c][k] = <<1, 1>>
                            /\ (1 <= k /\ k <= i[c]) =>
                                   ans[c][k] = RawToPoly(x, poly_terms)[k]
              /\ pc[c] = "done" =>
                     /\ ans[c] = RawToPoly(x, poly_terms)
                     /\ n_inner[c] = poly_terms.nrow * poly_terms.ncol)
    /\ [][\A c \in Calls :
              (pc[c] = "inner" /\ j'[c] = j[c] + 1) =>
                  \A k \in DOMAIN ans[c] :
                      k # i[c] + 1 => (k \in DOMAIN ans'[c] /\ ans'[c][k] = ans[c][k])]_vars

C10_Witness ==
    \E c \in Calls :
        /\ pc[c] = "outer"
        /\ 0 < i[c] /\ i[c] < poly_terms.nrow
        /\ ans[c][i[c]] \notin {<<1, 1>>, <<0, 1>>}

====
